---------------------------- MODULE Spec2Model ----------------------------
(***************************************************************************)
(* A model of the asana-writers agents:                                    *)
(*   asana_pull.py        paged fetch with retry, and the weekly pull      *)
(*   classify_tasks.py    one classifier run over the prepared task file   *)
(*   analyze_workload.py  the hub-container rule and the upload file        *)
(* Seven specifications share the module, one per program part:            *)
(*   SpecFetch     one call of fetch_tasks_for_day                         *)
(*   SpecMerge     the merge step of one (day, assignee) pair              *)
(*   SpecPull      pull_writer_tasks_next_week over days and assignees     *)
(*   SpecClassify  main() of classify_tasks.py                             *)
(*   SpecFilter    is_hub_container_task on one task                       *)
(*   SpecPoll      one call of poll_until_complete (summarize_workload.py) *)
(*   SpecPrepare   merge, save_jsonl and jsonl_to_json_file of either      *)
(*                 script, on the tasks of one (day, assignee) pair        *)
(***************************************************************************)
EXTENDS Integers, Sequences, FiniteSets, TLC

VARIABLES
    \* ---- fetch_tasks_for_day / fetch_with_retry (asana_pull.py) ----
    srcN,       \* the remote source: number of items matching the query
    srcPs,      \* the remote source: its page size
    chainOK,    \* the source gave every page but the last a usable continuation
    fpc,        \* "fetching" | "returned" | "raised"
    url,        \* the URL of the next request
    out,        \* accumulated items
    page,       \* pages fetched so far
    attempt,    \* requests already issued by the running fetch_with_retry call
    backoff,    \* fetch_with_retry's backoff
    hist,       \* the requests of the running fetch_with_retry call: the URL
                \* requested, the response's status and Retry-After, and
                \* the wait slept before the next request
    lastNext,   \* next_page of the last successful response
    paced,      \* number of pacing sleeps (line 166)
    fullPages,  \* earlier pages of this query whose fetch_with_retry call
                \* issued all max_attempts requests
    fresult,    \* what fetch_tasks_for_day gave its caller
    \* ---- pull_writer_tasks_next_week (asana_pull.py) ----
    ppc,        \* "parents" | "subs" | "done" | "raised" | "idle"
    dayIx,      \* index of the day of the running iteration
    ownerIx,    \* index of the assignee of the running iteration
    parents,    \* result of the is_subtask=False query of the iteration
    subs,       \* result of the is_subtask=True query of the iteration
    by_gid,     \* the merged dict of the last finished iteration (in dict order)
    results,    \* the pull's result list
    issued,     \* the queries issued so far: <<day, assignee, is_subtask>>
    \* ---- main() of classify_tasks.py ----
    cpc,        \* "polling" | "done" | "exited" | "idle"
    batch,      \* the ids of the tasks in the uploaded file, in file order
    calls,      \* sizes of the batches submitted to the classifier (runs created)
    polls,      \* status retrievals that found the run not yet terminal
    runStatus,  \* r.status of the last retrieval
    checkedAt,  \* clock at the last retrieval, in tenths of a second since
                \* the run was created
    assistant_text, \* the collected assistant text
    classified, \* the object handed to save_json
    artifacts,  \* files written under output/, in order
    \* ---- is_hub_container_task (analyze_workload.py) ----
    hpc,        \* "start" | "checked" | "saved" | "prepared" | "idle"
    task,       \* the task dict: [is_subtask, name]
    verdict,    \* what is_hub_container_task returned
    \* ---- save_jsonl (asana_pull.py) and jsonl_to_json_file ----
    jsonl,      \* the tasks in the JSONL file, one per line, in file order
    script,     \* whose jsonl_to_json_file ran: "analyze" | "classify" | "none"
    include_env,\* the environment's INCLUDE_HUB_PARENTS
    objs,       \* the array written to the upload file
    \* ---- poll_until_complete (summarize_workload.py) ----
    qpc,        \* "polling" | "returned" | "raised" | "idle"
    timeout,    \* the call's timeout_s, in seconds
    clock,      \* time.time() - t0 at the last reading, in tenths of a second
    run,        \* run.status of the last retrieval
    retrieved   \* retrievals made

fetchVars == <<srcN, srcPs, chainOK, fpc, url, out, page, attempt, backoff,
               hist, lastNext, paced, fullPages, fresult>>

pullVars == <<ppc, dayIx, ownerIx, parents, subs, by_gid, results, issued>>

classifyVars == <<cpc, batch, calls, polls, runStatus, checkedAt,
                  assistant_text, classified, artifacts>>

filterVars == <<hpc, task, verdict, jsonl, script, include_env, objs>>

pollVars == <<qpc, timeout, clock, run, retrieved>>

vars == <<fetchVars, pullVars, classifyVars, filterVars, pollVars>>

-----------------------------------------------------------------------------
(* Bounds of the model *)

MaxItems == 3

MaxPageSize == 2

MaxRetryAfter == 2

\* task ids the source hands out: 1..MaxGid
MaxGid == 2

\* total length of the two query results merged under SpecMerge
MaxList == 3

\* length of one query result under SpecPull
MaxAnswer == 1

\* tasks in the file uploaded to the classifier
MaxBatch == 3

\* retrievals that may find the classifier run still pending
MaxPolls == 2

\* tenths of a second a slow runs.retrieve call may take
SlowRetrieve == 3000

\* tasks the two queries of one pair return together under SpecPrepare
MaxFile == 3

\* seconds a caller of poll_until_complete may pass as timeout_s
MaxTimeout == 3

\* title pieces a task name is put together from
MaxTitlePieces == 3

-----------------------------------------------------------------------------
(* Values *)

\* An optional JSON value: absent (None / missing key) or present with value v.
\* v = 0 stands for the falsy present values (0, or the empty string).
Absent == [some |-> FALSE, v |-> 0]

Val(n) == [some |-> TRUE, v |-> n]

\* Python truthiness, as used by `if next_page.get("uri")`, `if t.get("gid")`
Truthy(x) == x.some /\ x.v # 0

Min(a, b) == IF a <= b THEN a ELSE b

Max(a, b) == IF a >= b THEN a ELSE b

-----------------------------------------------------------------------------
(* The remote source (Asana search), as seen through requests.get *)

Statuses == {199, 200, 299, 300, 404, 429, 500, 599, 600}

\* Retry-After header of a 429: absent, or a number of seconds
RetryAfterVals == {Absent} \cup {Val(n) : n \in 0..MaxRetryAfter}

\* The source serves srcN items (numbered 1..srcN, in its sort order) in pages
\* of srcPs items; an empty result is one empty page.
NumPages(n, ps) == IF n = 0 THEN 1 ELSE (n + ps - 1) \div ps

PageData(k, n, ps) ==
    [i \in 1..(Min(k * ps, n) - (k - 1) * ps) |-> (k - 1) * ps + i]

\* The page a URL addresses: the first query, a next_page.uri (the URI of page
\* v), or the query rebuilt with offset v (v items skipped).
PageOf(u, ps) ==
    CASE u.kind = "query"  -> 1
      [] u.kind = "uri"    -> u.v
      [] u.kind = "offset" -> (u.v \div ps) + 1

NoPage == [null |-> TRUE, uri |-> Absent, offset |-> Absent]

NextPage(u, o) == [null |-> FALSE, uri |-> u, offset |-> o]

\* next_page of page k when a page follows it: any mix of a URI of page k+1
\* (or an empty / missing one) and the offset of page k+1 (or 0 / missing),
\* or null.
MidShapes(k, ps) ==
    {NoPage} \cup
    {NextPage(u, o) : u \in {Absent, Val(0), Val(k + 1)},
                      o \in {Absent, Val(0), Val(k * ps)}}

\* next_page of the last page: null, or an object without a usable token.
LastShapes == {NoPage, NextPage(Absent, Absent)}

\* A continuation the response supplies: a non-empty URI or a non-zero offset.
HasContinuation(np) == ~np.null /\ (Truthy(np.uri) \/ Truthy(np.offset))

AllItems(n) == [i \in 1..n |-> i]

-----------------------------------------------------------------------------
(* fetch_with_retry *)

max_attempts == 5

BackoffCap == 10

CanRetry_short(n) == n < max_attempts - 1

\* `attempt < max_attempts` (lines 95 and 99)
CanRetry(n) == n < max_attempts

IsRateLimited(status) == status = 429

IsServerError_wide(status) == 400 <= status /\ status < 600

\* `500 <= resp.status_code < 600`
IsServerError(status) == 500 <= status /\ status < 600

\* `resp.status_code < 200 or resp.status_code >= 300` negated
IsSuccess(status) == 200 <= status /\ status < 300

RateLimitWait_raw(ra) == IF ra.some THEN ra.v ELSE 2

\* max(1.0, float(resp.headers.get("Retry-After", "2")))
RateLimitWait(ra) == Max(1, IF ra.some THEN ra.v ELSE 2)

NextBackoff_same(b) == b

\* backoff = min(backoff * 2, 10.0)
NextBackoff(b) == Min(b * 2, BackoffCap)

NoWait == Absent

-----------------------------------------------------------------------------
(* fetch_tasks_for_day *)

FirstUrl == [kind |-> "query", v |-> 0]

Extend_replace(acc, data) == data

\* out.extend(data)
Extend(acc, data) == acc \o data

NextUrl_offsetFirst(np) ==
    IF np.null THEN Absent
    ELSE IF Truthy(np.offset) THEN Val([kind |-> "offset", v |-> np.offset.v])
    ELSE IF Truthy(np.uri) THEN Val([kind |-> "uri", v |-> np.uri.v])
    ELSE Absent

\* Lines 153-163: the URL of the next page, or none (break)
NextUrl(np) ==
    IF np.null \/ (~np.uri.some /\ ~np.offset.some) THEN Absent
    ELSE IF Truthy(np.uri) THEN Val([kind |-> "uri", v |-> np.uri.v])
    ELSE IF Truthy(np.offset) THEN Val([kind |-> "offset", v |-> np.offset.v])
    ELSE Absent

\* The other program parts at rest
PullIdle ==
    /\ ppc = "idle"
    /\ dayIx = 0
    /\ ownerIx = 0
    /\ parents = <<>>
    /\ subs = <<>>
    /\ by_gid = <<>>
    /\ results = <<>>
    /\ issued = {}

NoTask == [is_subtask |-> "none", name |-> [some |-> FALSE, chars |-> <<>>]]

\* an environment variable that is not set
NoEnv == [some |-> FALSE, chars |-> <<>>]

FilterIdle ==
    /\ hpc = "idle"
    /\ task = NoTask
    /\ verdict = FALSE
    /\ jsonl = <<>>
    /\ script = "none"
    /\ include_env = NoEnv
    /\ objs = <<>>

NoText == [syntax |-> "empty", results |-> <<>>]

NoJson == [kind |-> "none", results |-> <<>>]

ClassifyIdle ==
    /\ cpc = "idle"
    /\ batch = <<>>
    /\ calls = <<>>
    /\ polls = 0
    /\ runStatus = "none"
    /\ checkedAt = 0
    /\ assistant_text = NoText
    /\ classified = NoJson
    /\ artifacts = <<>>

PollIdle ==
    /\ qpc = "idle"
    /\ timeout = 0
    /\ clock = 0
    /\ run = "none"
    /\ retrieved = 0

FetchIdle ==
    /\ srcN = 0
    /\ srcPs = 1
    /\ chainOK = TRUE
    /\ fpc = "idle"
    /\ url = [kind |-> "query", v |-> 0]
    /\ out = <<>>
    /\ page = 0
    /\ attempt = 0
    /\ backoff = 1
    /\ hist = <<>>
    /\ lastNext = NoPage
    /\ paced = 0
    /\ fullPages = 0
    /\ fresult = Absent

InitFetch ==
    /\ srcN \in 0..MaxItems
    /\ srcPs \in 1..MaxPageSize
    /\ chainOK = TRUE
    /\ fpc = "fetching"
    /\ url = FirstUrl
    /\ out = <<>>
    /\ page = 0
    /\ attempt = 0
    /\ backoff = 1
    /\ hist = <<>>
    /\ lastNext = NoPage
    /\ paced = 0
    /\ fullPages = 0
    /\ fresult = Absent
    /\ PullIdle
    /\ ClassifyIdle
    /\ PollIdle
    /\ FilterIdle

\* One round of fetch_with_retry's loop (line 94): requests.get(url), the
\* response's status and Retry-After header, and the sleep that followed.
Round(status, ra, wait) ==
    [url |-> url, status |-> status, ra |-> ra, wait |-> wait]

NewCall_shared(u) ==
    [attempt |-> attempt + 1, backoff |-> backoff, hist |-> <<>>]

\* Lines 91-93: fetch_with_retry(u) is entered: its loop counter and its
\* backoff are locals of the call, no request is issued yet and backoff = 1.0
NewCall(u) == [attempt |-> 0, backoff |-> 1, hist |-> <<>>]

Raise_partial(status) ==
    /\ fpc' = "returned"
    /\ fresult' = Val(out)
    /\ attempt' = attempt + 1
    /\ hist' = Append(hist, Round(status, Absent, NoWait))
    /\ UNCHANGED <<url, out, page, backoff, lastNext, paced, fullPages,
                   chainOK>>

\* Lines 143-144: a non-success response raises RuntimeError; out is lost.
Raise(status) ==
    /\ fpc' = "raised"
    /\ fresult' = Absent
    /\ attempt' = attempt + 1
    /\ hist' = Append(hist, Round(status, Absent, NoWait))
    /\ UNCHANGED <<url, out, page, backoff, lastNext, paced, fullPages,
                   chainOK>>

\* Lines 146-168: take the page, then go on to the next page or return out.
Take(status, np) ==
    LET k    == PageOf(url, srcPs)
        data == PageData(k, srcN, srcPs)
        nxt  == NextUrl(np)
    IN  /\ out' = Extend(out, data)
        /\ page' = page + 1
        /\ lastNext' = np
        /\ chainOK' = (chainOK /\
                       (k < NumPages(srcN, srcPs) => HasContinuation(np)))
        /\ IF nxt.some
           THEN \* time.sleep(0.1), then a new fetch_with_retry call
                /\ url' = nxt.v
                /\ paced' = paced + 1
                /\ fpc' = "fetching"
                /\ fresult' = Absent
                /\ fullPages' = fullPages +
                                 (IF attempt + 1 = max_attempts THEN 1 ELSE 0)
                /\ attempt' = NewCall(nxt.v).attempt
                /\ backoff' = NewCall(nxt.v).backoff
                /\ hist' = NewCall(nxt.v).hist
           ELSE /\ fpc' = "returned"
                /\ fresult' = Val(out')
                /\ attempt' = attempt + 1
                /\ hist' = Append(hist, Round(status, Absent, NoWait))
                /\ UNCHANGED <<url, paced, fullPages, backoff>>

\* fetch_with_retry returns resp (line 103, or 104 when the loop runs out) to
\* fetch_tasks_for_day.
Deliver(status, np) ==
    IF IsSuccess(status) THEN Take(status, np) ELSE Raise(status)

\* Lines 96-98 / 100-102: sleep and `continue`; when that was the last round
\* of the for loop, line 104 returns the response.
Continue(status, ra, wait, nextBackoff, np) ==
    IF attempt + 1 < max_attempts
    THEN /\ attempt' = attempt + 1
         /\ hist' = Append(hist, Round(status, ra, Val(wait)))
         /\ backoff' = nextBackoff
         /\ UNCHANGED <<fpc, url, out, page, lastNext, paced, fullPages,
                        chainOK, fresult>>
    ELSE Deliver(status, np)

\* The shapes the source may give next_page of the page the URL addresses.
ShapesFor(u) ==
    LET k == PageOf(u, srcPs)
    IN  IF k < NumPages(srcN, srcPs) THEN MidShapes(k, srcPs) ELSE LastShapes

\* One round of fetch_with_retry's loop: a 429 that is retried.
RetryRateLimited ==
    /\ fpc = "fetching"
    /\ \E ra \in RetryAfterVals :
          /\ CanRetry(attempt + 1)
          /\ Continue(429, ra, RateLimitWait(ra), backoff, NoPage)
    /\ UNCHANGED <<srcN, srcPs>>
    /\ UNCHANGED pullVars
    /\ UNCHANGED classifyVars
    /\ UNCHANGED filterVars
    /\ UNCHANGED pollVars

\* One round of fetch_with_retry's loop: a 5xx that is retried.
RetryServerError ==
    /\ fpc = "fetching"
    /\ \E status \in Statuses :
          /\ ~(IsRateLimited(status) /\ CanRetry(attempt + 1))
          /\ IsServerError(status) /\ CanRetry(attempt + 1)
          /\ Continue(status, Absent, backoff, NextBackoff(backoff), NoPage)
    /\ UNCHANGED <<srcN, srcPs>>
    /\ UNCHANGED pullVars
    /\ UNCHANGED classifyVars
    /\ UNCHANGED filterVars
    /\ UNCHANGED pollVars

\* A response that is not retried and is not a success: the fetch raises.
FailPage ==
    /\ fpc = "fetching"
    /\ \E status \in Statuses :
          /\ ~(IsRateLimited(status) /\ CanRetry(attempt + 1))
          /\ ~(IsServerError(status) /\ CanRetry(attempt + 1))
          /\ ~IsSuccess(status)
          /\ Deliver(status, NoPage)
    /\ UNCHANGED <<srcN, srcPs>>
    /\ UNCHANGED pullVars
    /\ UNCHANGED classifyVars
    /\ UNCHANGED filterVars
    /\ UNCHANGED pollVars

\* A successful response: the page is taken.
TakePage ==
    /\ fpc = "fetching"
    /\ \E status \in Statuses, np \in ShapesFor(url) :
          /\ ~(IsRateLimited(status) /\ CanRetry(attempt + 1))
          /\ ~(IsServerError(status) /\ CanRetry(attempt + 1))
          /\ IsSuccess(status)
          /\ Deliver(status, np)
    /\ UNCHANGED <<srcN, srcPs>>
    /\ UNCHANGED pullVars
    /\ UNCHANGED classifyVars
    /\ UNCHANGED filterVars
    /\ UNCHANGED pollVars

NextFetch == RetryRateLimited \/ RetryServerError \/ FailPage \/ TakePage

SpecFetch == InitFetch /\ [][NextFetch]_vars


-----------------------------------------------------------------------------
(* pull_writer_tasks_next_week: merge + de-dupe by gid (lines 181-198) *)

\* A task as the source returns it: null, or a dict with an optional gid
\* (absent, empty, or a non-empty id 1..MaxGid), a name, and no
\* _assignee_friendly yet.
NullTask == [null |-> TRUE, gid |-> Absent, name |-> 0, friendly |-> Absent]

Task(g, n) == [null |-> FALSE, gid |-> g, name |-> n, friendly |-> Absent]

GidVals == {Absent, Val(0)} \cup {Val(g) : g \in 1..MaxGid}

Names == {1, 2}

Tasks == {NullTask} \cup {Task(g, n) : g \in GidVals, n \in Names}

SeqsUpTo(S, n) == UNION {[1..k -> S] : k \in 0..n}

DictSet_append(d, t) == Append(d, t)

DictSet_keepFirst(d, t) ==
    IF \E i \in 1..Len(d) : d[i].gid = t.gid THEN d ELSE Append(d, t)

\* by_gid[t["gid"]] = t : overwrite in place, or insert at the end
DictSet(d, t) ==
    IF \E i \in 1..Len(d) : d[i].gid = t.gid
    THEN [i \in 1..Len(d) |-> IF d[i].gid = t.gid THEN t ELSE d[i]]
    ELSE Append(d, t)

HasGid_present(t) == ~t.null /\ t.gid.some

\* `if t and t.get("gid")`
HasGid(t) == ~t.null /\ Truthy(t.gid)

RECURSIVE MergeInto(_, _)
\* for t in ts: if t and t.get("gid"): by_gid[t["gid"]] = t
MergeInto(d, ts) ==
    IF ts = <<>> THEN d
    ELSE MergeInto(IF HasGid(Head(ts)) THEN DictSet(d, Head(ts)) ELSE d, Tail(ts))

\* Lines 182-185, over [*parents, *subs]
MergeByGid(ps, ss) == MergeInto(<<>>, ps \o ss)

Annotate_gid(d, friendly_name) ==
    [i \in 1..Len(d) |-> [d[i] EXCEPT !.friendly = d[i].gid]]

\* Lines 188-193: both branches set t["_assignee_friendly"] = friendly_name
Annotate(d, friendly_name) ==
    [i \in 1..Len(d) |-> [d[i] EXCEPT !.friendly = Val(friendly_name)]]

-----------------------------------------------------------------------------
(* SpecMerge: the merge step of one (day, assignee) pair, on any two results *)

InitMerge ==
    /\ FetchIdle
    /\ ClassifyIdle
    /\ PollIdle
    /\ FilterIdle
    /\ ppc = "merge"
    /\ dayIx = 1
    /\ ownerIx = 1
    /\ \E all \in SeqsUpTo(Tasks, MaxList) : \E k \in 0..Len(all) :
          /\ parents = SubSeq(all, 1, k)
          /\ subs = SubSeq(all, k + 1, Len(all))
    /\ by_gid = <<>>
    /\ results = <<>>
    /\ issued = {}

MergeStep ==
    /\ ppc = "merge"
    /\ by_gid' = Annotate(MergeByGid(parents, subs), ownerIx)
    /\ results' = results \o by_gid'
    /\ ppc' = "merged"
    /\ UNCHANGED <<dayIx, ownerIx, parents, subs, issued>>
    /\ UNCHANGED fetchVars
    /\ UNCHANGED classifyVars
    /\ UNCHANGED filterVars
    /\ UNCHANGED pollVars

NextMerge == MergeStep

SpecMerge == InitMerge /\ [][NextMerge]_vars

-----------------------------------------------------------------------------
(* SpecPull: pull_writer_tasks_next_week (lines 171-200) *)

\* daterange(monday, sunday): two of the week's seven days
Days == <<"mon", "tue">>

\* ASSIGNEE_GIDS: two of the seven assignees, in dict order
ASSIGNEE_GIDS == <<"gid_A", "gid_B">>

Queries == {<<d, o, f>> : d \in 1..Len(Days), o \in 1..Len(ASSIGNEE_GIDS),
                          f \in BOOLEAN}

\* What fetch_tasks_for_day may return for one query: any short task list.
PullTasks == {NullTask} \cup {Task(g, 1) : g \in {Absent} \cup {Val(g) : g \in 1..MaxGid}}

Answers == SeqsUpTo(PullTasks, MaxAnswer)

InitPull ==
    /\ FetchIdle
    /\ ClassifyIdle
    /\ PollIdle
    /\ FilterIdle
    /\ ppc = "parents"
    /\ dayIx = 1
    /\ ownerIx = 1
    /\ parents = <<>>
    /\ subs = <<>>
    /\ by_gid = <<>>
    /\ results = <<>>
    /\ issued = {}

\* Line 178: the is_subtask=False query returns.
QueryParents ==
    /\ ppc = "parents"
    /\ \E ans \in Answers : parents' = ans
    /\ issued' = issued \cup {<<dayIx, ownerIx, FALSE>>}
    /\ ppc' = "subs"
    /\ UNCHANGED <<dayIx, ownerIx, subs, by_gid, results>>
    /\ UNCHANGED fetchVars
    /\ UNCHANGED classifyVars
    /\ UNCHANGED filterVars
    /\ UNCHANGED pollVars

\* Line 178: fetch_tasks_for_day raises; nothing in the pull catches it.
QueryParentsRaises ==
    /\ ppc = "parents"
    /\ issued' = issued \cup {<<dayIx, ownerIx, FALSE>>}
    /\ ppc' = "raised"
    /\ UNCHANGED <<dayIx, ownerIx, parents, subs, by_gid, results>>
    /\ UNCHANGED fetchVars
    /\ UNCHANGED classifyVars
    /\ UNCHANGED filterVars
    /\ UNCHANGED pollVars

\* Lines 179-198: the is_subtask=True query returns; merge, annotate, extend,
\* and on to the next assignee / day, or return results.
QuerySubs ==
    /\ ppc = "subs"
    /\ \E ans \in Answers :
          /\ subs' = ans
          /\ by_gid' = Annotate(MergeByGid(parents, ans), ownerIx)
    /\ issued' = issued \cup {<<dayIx, ownerIx, TRUE>>}
    /\ results' = results \o by_gid'
    /\ IF ownerIx < Len(ASSIGNEE_GIDS)
       THEN /\ ownerIx' = ownerIx + 1
            /\ dayIx' = dayIx
            /\ ppc' = "parents"
       ELSE IF dayIx < Len(Days)
       THEN /\ ownerIx' = 1
            /\ dayIx' = dayIx + 1
            /\ ppc' = "parents"
       ELSE /\ ppc' = "done"
            /\ UNCHANGED <<dayIx, ownerIx>>
    /\ UNCHANGED parents
    /\ UNCHANGED fetchVars
    /\ UNCHANGED classifyVars
    /\ UNCHANGED filterVars
    /\ UNCHANGED pollVars

\* Line 179: fetch_tasks_for_day raises; nothing in the pull catches it.
QuerySubsRaises ==
    /\ ppc = "subs"
    /\ issued' = issued \cup {<<dayIx, ownerIx, TRUE>>}
    /\ ppc' = "raised"
    /\ UNCHANGED <<dayIx, ownerIx, parents, subs, by_gid, results>>
    /\ UNCHANGED fetchVars
    /\ UNCHANGED classifyVars
    /\ UNCHANGED filterVars
    /\ UNCHANGED pollVars

NextPull == QueryParents \/ QueryParentsRaises \/ QuerySubs \/ QuerySubsRaises

SpecPull == InitPull /\ [][NextPull]_vars

-----------------------------------------------------------------------------
(* SpecClassify: main() of classify_tasks.py (lines 95-193) *)

TerminalStatuses == {"completed", "failed", "cancelled", "expired"}

PendingStatuses == {"queued", "in_progress"}

\* The assistant's collected text, by what json.loads makes of it:
\*   "empty"   no assistant text at all
\*   "prose"   text that is not JSON
\*   "fenced"  a JSON object with a result array, wrapped in a code fence
\*   "object"  a JSON object with a result array
\*   "array"   a bare JSON array of results
\*   "scalar"  a JSON string or number
\* results: the ids of the entries of the result array, in order.
ResultSeqs(n) == SeqsUpTo(1..n, n + 1)

Texts(n) ==
    {[syntax |-> sx, results |-> <<>>] : sx \in {"empty", "prose", "scalar"}}
    \cup {[syntax |-> sx, results |-> r] :
             sx \in {"fenced", "object", "array"}, r \in ResultSeqs(n)}

\* Line 145: time.sleep(1.2), in tenths of a second
PollSleep == 12

\* Time one runs.retrieve call takes (line 142), in tenths of a second
RetrieveTimes == {0, SlowRetrieve}

\* json.loads(assistant_text) does not raise
Parses(text) == text.syntax \in {"object", "array", "scalar"}

ParseOrError_padded(text) ==
    IF Parses(text)
    THEN [kind |-> text.syntax, results |-> text.results]
    ELSE [kind |-> "error", results |-> batch]

\* Lines 180-190: the parsed value, or the error object
ParseOrError(text) ==
    IF Parses(text)
    THEN [kind |-> text.syntax, results |-> text.results]
    ELSE [kind |-> "error", results |-> <<>>]

InitClassify ==
    /\ FetchIdle
    /\ PullIdle
    /\ FilterIdle
    /\ PollIdle
    /\ cpc = "polling"
    /\ \E n \in 0..MaxBatch : /\ batch = [i \in 1..n |-> i]
                              /\ calls = <<n>>
    /\ polls = 0
    /\ runStatus = "none"
    /\ checkedAt = 0
    /\ assistant_text = NoText
    /\ classified = NoJson
    /\ artifacts = <<>>

\* Lines 141-145: a retrieval (after the sleep that follows an earlier one)
\* finds the run not terminal yet; the loop has no other exit.
PollPending ==
    /\ cpc = "polling"
    /\ polls < MaxPolls
    /\ \E st \in PendingStatuses : runStatus' = st
    /\ \E d \in RetrieveTimes :
          checkedAt' = checkedAt + (IF polls = 0 THEN 0 ELSE PollSleep) + d
    /\ polls' = polls + 1
    /\ UNCHANGED <<cpc, batch, calls, assistant_text, classified, artifacts>>
    /\ UNCHANGED fetchVars
    /\ UNCHANGED pullVars
    /\ UNCHANGED filterVars
    /\ UNCHANGED pollVars

\* Lines 143-161: the run ended failed, cancelled or expired: SystemExit.
RunNotCompleted ==
    /\ cpc = "polling"
    /\ \E st \in TerminalStatuses \ {"completed"} : runStatus' = st
    /\ \E d \in RetrieveTimes :
          checkedAt' = checkedAt + (IF polls = 0 THEN 0 ELSE PollSleep) + d
    /\ cpc' = "exited"
    /\ UNCHANGED <<batch, calls, polls, assistant_text, classified, artifacts>>
    /\ UNCHANGED fetchVars
    /\ UNCHANGED pullVars
    /\ UNCHANGED filterVars
    /\ UNCHANGED pollVars

\* Lines 143-193: the run completed; collect the text, save it raw, parse it
\* (or build the error object) and save the result.
RunCompleted ==
    /\ cpc = "polling"
    /\ runStatus' = "completed"
    /\ \E d \in RetrieveTimes :
          checkedAt' = checkedAt + (IF polls = 0 THEN 0 ELSE PollSleep) + d
    /\ \E text \in Texts(Len(batch)) :
          /\ assistant_text' = text
          /\ classified' = ParseOrError(text)
          /\ artifacts' = artifacts \o
                <<[file |-> "assistant_raw", text |-> text, json |-> NoJson],
                  [file |-> "classified_tasks", text |-> NoText,
                   json |-> ParseOrError(text)]>>
    /\ cpc' = "done"
    /\ UNCHANGED <<batch, calls, polls>>
    /\ UNCHANGED fetchVars
    /\ UNCHANGED pullVars
    /\ UNCHANGED filterVars
    /\ UNCHANGED pollVars

NextClassify == PollPending \/ RunNotCompleted \/ RunCompleted

SpecClassify == InitClassify /\ [][NextClassify]_vars

-----------------------------------------------------------------------------
(* SpecPoll: poll_until_complete (summarize_workload.py lines 33-41) *)

\* Line 33: the default of timeout_s, in seconds
timeout_s == 600

\* timeout_s of a call: the default, or a short one the caller passes
Timeouts == (0..MaxTimeout) \cup {timeout_s}

Expired_atLeast(now, t) == now >= t * 10

\* Line 39: time.time() - t0 > timeout_s, the time in tenths of a second
Expired(now, t) == now > t * 10

InitPoll ==
    /\ FetchIdle
    /\ PullIdle
    /\ ClassifyIdle
    /\ FilterIdle
    /\ qpc = "polling"
    /\ timeout \in Timeouts
    /\ clock = 0
    /\ run = "none"
    /\ retrieved = 0

\* Lines 36-38: the retrieval finds the run terminal; it is returned.
PollReturn ==
    /\ qpc = "polling"
    /\ \E d \in RetrieveTimes : clock' = clock + d
    /\ \E st \in TerminalStatuses : run' = st
    /\ retrieved' = retrieved + 1
    /\ qpc' = "returned"
    /\ UNCHANGED timeout
    /\ UNCHANGED fetchVars
    /\ UNCHANGED pullVars
    /\ UNCHANGED classifyVars
    /\ UNCHANGED filterVars

\* Lines 36-40: the run is not terminal and the deadline has passed.
PollTimeout ==
    /\ qpc = "polling"
    /\ \E d \in RetrieveTimes :
          /\ Expired(clock + d, timeout)
          /\ clock' = clock + d
    /\ \E st \in PendingStatuses : run' = st
    /\ retrieved' = retrieved + 1
    /\ qpc' = "raised"
    /\ UNCHANGED timeout
    /\ UNCHANGED fetchVars
    /\ UNCHANGED pullVars
    /\ UNCHANGED classifyVars
    /\ UNCHANGED filterVars

\* Lines 36-41: the run is not terminal and the deadline has not passed:
\* sleep 1.2 s and go round again.
PollAgain ==
    /\ qpc = "polling"
    /\ \E d \in RetrieveTimes :
          /\ ~Expired(clock + d, timeout)
          /\ clock' = clock + d + PollSleep
    /\ \E st \in PendingStatuses : run' = st
    /\ retrieved' = retrieved + 1
    /\ UNCHANGED <<qpc, timeout>>
    /\ UNCHANGED fetchVars
    /\ UNCHANGED pullVars
    /\ UNCHANGED classifyVars
    /\ UNCHANGED filterVars

NextPoll == PollReturn \/ PollTimeout \/ PollAgain

SpecPoll == InitPoll /\ [][NextPoll]_vars

\* The loop is the only thing the calling thread does: it goes on running.
SpecPollLive == SpecPoll /\ WF_vars(NextPoll)

-----------------------------------------------------------------------------
(* Text: a string is a sequence of one-character strings *)

UpperLetters == {"A", "B", "C", "D", "E", "F", "G", "H", "I", "J", "K", "L", "M", "N", "O", "P", "Q", "R", "S", "T", "U", "V", "W", "X", "Y", "Z"}

LowerLetters == {"a", "b", "c", "d", "e", "f", "g", "h", "i", "j", "k", "l", "m", "n", "o", "p", "q", "r", "s", "t", "u", "v", "w", "x", "y", "z"}

Digits == {"0", "1", "2", "3", "4", "5", "6", "7", "8", "9"}

\* str.lower() / re.IGNORECASE on one character
LowerChar(c) ==
    CASE
         c = "A" -> "a"
      [] c = "B" -> "b"
      [] c = "C" -> "c"
      [] c = "D" -> "d"
      [] c = "E" -> "e"
      [] c = "F" -> "f"
      [] c = "G" -> "g"
      [] c = "H" -> "h"
      [] c = "I" -> "i"
      [] c = "J" -> "j"
      [] c = "K" -> "k"
      [] c = "L" -> "l"
      [] c = "M" -> "m"
      [] c = "N" -> "n"
      [] c = "O" -> "o"
      [] c = "P" -> "p"
      [] c = "Q" -> "q"
      [] c = "R" -> "r"
      [] c = "S" -> "s"
      [] c = "T" -> "t"
      [] c = "U" -> "u"
      [] c = "V" -> "v"
      [] c = "W" -> "w"
      [] c = "X" -> "x"
      [] c = "Y" -> "y"
      [] c = "Z" -> "z"
      [] OTHER -> c

\* the character compared under re.IGNORECASE
Fold(c) == LowerChar(c)

\* \w
IsWordChar(c) == c \in UpperLetters \cup LowerLetters \cup Digits \cup {"_"}

\* \s
IsSpace(c) == c \in {" "}

RECURSIVE Flatten(_)
Flatten(ss) == IF ss = <<>> THEN <<>> ELSE Head(ss) \o Flatten(Tail(ss))

RECURSIVE LStrip(_)
LStrip(s) == IF s # <<>> /\ IsSpace(Head(s)) THEN LStrip(Tail(s)) ELSE s

RECURSIVE RStrip(_)
RStrip(s) ==
    IF s # <<>> /\ IsSpace(s[Len(s)]) THEN RStrip(SubSeq(s, 1, Len(s) - 1)) ELSE s

\* str.strip()
Strip(s) == RStrip(LStrip(s))

\* the pattern text w matches s at position i, ignoring case
MatchesAt(s, i, w) ==
    /\ i + Len(w) - 1 <= Len(s)
    /\ \A j \in 1..Len(w) : Fold(s[i + j - 1]) = Fold(w[j])

WordAt(s, i) == i >= 1 /\ i <= Len(s) /\ IsWordChar(s[i])

\* \b between positions i-1 and i
AtBoundary(s, i) == WordAt(s, i - 1) # WordAt(s, i)

\* re.compile(r'\b(a|b|...)\b', re.IGNORECASE).search(s)
SearchWords(alts, s) ==
    \E i \in 1..Len(s) : \E w \in alts :
        MatchesAt(s, i, w) /\ AtBoundary(s, i) /\ AtBoundary(s, i + Len(w))

-----------------------------------------------------------------------------
(* analyze_workload.py: hub container detection (lines 39-64) *)

\* The alternatives of ACTION_RE, optional groups written out
ACTION_RE ==
    {<<"w", "r", "i", "t", "e", "r">>,
     <<"e", "d", "i", "t", "o", "r">>,
     <<"e", "d", "i", "t", "i", "n", "g">>,
     <<"e", "d", "i", "t">>,
     <<"e", "d", "i", "t", "e", "d">>,
     <<"d", "r", "a", "f", "t">>,
     <<"d", "r", "a", "f", "t", "e", "d">>,
     <<"d", "r", "a", "f", "t", "i", "n", "g">>,
     <<"w", "r", "i", "t", "i", "n", "g">>,
     <<"w", "r", "i", "t", "e">>,
     <<"c", "o", "m", "p", "o", "s", "e">>,
     <<"o", "u", "t", "l", "i", "n", "e">>,
     <<"p", "u", "b", "l", "i", "s", "h">>,
     <<"p", "u", "b", "l", "i", "s", "h", "e", "d">>,
     <<"p", "u", "b", "l", "i", "s", "h", "i", "n", "g">>,
     <<"s", "c", "h", "e", "d", "u", "l", "e">>,
     <<"s", "c", "h", "e", "d", "u", "l", "e", "d">>,
     <<"p", "l", "a", "n">>,
     <<"p", "l", "a", "n", "n", "i", "n", "g">>,
     <<"p", "r", "e", "v", "i", "e", "w", " ", "l", "i", "n", "k">>,
     <<"s", "e", "n", "d", " ", "t", "o", " ", "c", "l", "i", "e", "n", "t">>,
     <<"s", "e", "n", "t", " ", "t", "o", " ", "p", "r", "e", "s", "s">>,
     <<"f", "e", "e", "d", "b", "a", "c", "k">>,
     <<"i", "n", "t", "e", "g", "r", "a", "t", "e">>,
     <<"i", "n", "t", "e", "g", "r", "a", "t", "e", "d">>,
     <<"b", "u", "i", "l", "d">>,
     <<"c", "r", "e", "a", "t", "e">>}

\* The alternatives of HUB_RE
HUB_RE == {<<"r", "u", "n", "s">>,
           <<"p", "o", "s", "t", "e", "d">>}

\* EDITION_RE.search(s): a bar, spaces, 2 to 5 letters, spaces, end of string
EDITION_RE_search(s) ==
    \E i \in 1..Len(s) : \E a \in i..Len(s) : \E b \in a..Len(s) :
        /\ s[i] = "|"
        /\ \A j \in (i + 1)..a : IsSpace(s[j])
        /\ b - a >= 2 /\ b - a <= 5
        /\ \A j \in (a + 1)..b : Fold(s[j]) \in LowerLetters
        /\ \A j \in (b + 1)..Len(s) : IsSpace(s[j])

HasBar(s) == \E i \in 1..Len(s) : s[i] = "|"

\* (t.get("name") or "")
NameOrEmpty(t) == IF t.name.some THEN t.name.chars ELSE <<>>

IsActionable_never(name) == FALSE

\* ACTION_RE.search(name)
IsActionable(name) == SearchWords(ACTION_RE, name)

is_hub_container_task(t) ==
    IF t.is_subtask = "true" THEN FALSE
    ELSE LET name == Strip(NameOrEmpty(t))
         IN  IF name = <<>> THEN FALSE
             ELSE IF IsActionable(name) THEN FALSE
             ELSE IF HasBar(name) /\ SearchWords(HUB_RE, name)
                  THEN (IF EDITION_RE_search(name) \/ TRUE THEN TRUE ELSE FALSE)
                  ELSE FALSE

-----------------------------------------------------------------------------
(* SpecFilter: is_hub_container_task on one task *)

\* Pieces of task names: a client name, the marker words, bars, an edition
\* code, an action word, an action phrase, a letter and a blank.
TitlePieces ==
    {<<"A", "c", "m", "e">>,
     <<" ", "r", "u", "n", "s", " ">>,
     <<"P", "o", "s", "t", "e", "d">>,
     <<"|">>,
     <<"|", " ", "R", "A", "L">>,
     <<"D", "r", "a", "f", "t", ":">>,
     <<"x">>,
     <<" ">>,
     <<"s", "e", "n", "d", " ", "t", "o", " ", "c", "l", "i", "e", "n", "t">>}

Titles == {Flatten(ps) : ps \in SeqsUpTo(TitlePieces, MaxTitlePieces)}

InitFilter ==
    /\ FetchIdle
    /\ PullIdle
    /\ ClassifyIdle
    /\ PollIdle
    /\ hpc = "start"
    /\ \E st \in {"true", "false", "none"} :
          \E nm \in {[some |-> FALSE, chars |-> <<>>]} \cup
                    {[some |-> TRUE, chars |-> c] : c \in Titles} :
             task = [is_subtask |-> st, name |-> nm]
    /\ verdict = FALSE
    /\ jsonl = <<>>
    /\ script = "none"
    /\ include_env = NoEnv
    /\ objs = <<>>

CheckTask ==
    /\ hpc = "start"
    /\ verdict' = is_hub_container_task(task)
    /\ hpc' = "checked"
    /\ UNCHANGED <<task, jsonl, script, include_env, objs>>
    /\ UNCHANGED fetchVars
    /\ UNCHANGED pullVars
    /\ UNCHANGED classifyVars
    /\ UNCHANGED pollVars

NextFilter == CheckTask

SpecFilter == InitFilter /\ [][NextFilter]_vars

-----------------------------------------------------------------------------
(* The upload file: save_jsonl (asana_pull.py lines 233-253) and the two     *)
(* jsonl_to_json_file (analyze_workload.py 90-109, classify_tasks.py 50-68)  *)

\* str.lower()
lower(s) == [i \in 1..Len(s) |-> LowerChar(s[i])]

\* sub in s
Contains(s, sub) ==
    \E i \in 1..(Len(s) - Len(sub) + 1) : SubSeq(s, i, i + Len(sub) - 1) = sub

\* s.startswith(p)
StartsWith(s, p) == Len(s) >= Len(p) /\ SubSeq(s, 1, Len(p)) = p

\* The tuple given to low.startswith in is_hub_parent
ActionablePrefixes ==
    {<<"w", "r", "i", "t", "e", "r", ":">>,
     <<"e", "d", "i", "t", "o", "r", ":">>,
     <<"r", "e", "a", "d", "y">>,
     <<"p", "u", "b", "l", "i", "s", "h", "e", "d">>,
     <<"p", "l", "a", "n", "n", "e", "r", ":">>,
     <<"p", "l", "a", "n", "n", "i", "n", "g", ":">>,
     <<"p", "r", "e", "v", "i", "e", "w", " ", "l", "i", "n", "k">>,
     <<"s", "e", "n", "d", " ", "t", "o", " ", "c", "l", "i", "e", "n", "t">>}

StartsActionable(low) == \E p \in ActionablePrefixes : StartsWith(low, p)

\* classify_tasks.py lines 37-47, on obj.get("name", "")
is_hub_parent(nm) ==
    LET n == IF nm.some THEN nm.chars ELSE <<>>
        low == lower(n)
        bars == HasBar(n)
        has_runs_or_posted ==
            \/ Contains(low, <<" ", "r", "u", "n", "s", " ">>)
            \/ Contains(low, <<" ", "p", "o", "s", "t", "e", "d", " ">>)
        actionable_prefix == StartsActionable(low)
    IN  bars /\ has_runs_or_posted /\ ~actionable_prefix

\* os.getenv(name, default)
GetEnv(env, default) == IF env.some THEN env.chars ELSE default

\* analyze_workload.py line 92
include_hub(env) ==
    lower(Strip(GetEnv(env, <<"f", "a", "l", "s", "e">>)))
        \in {<<"1">>, <<"t", "r", "u", "e">>, <<"y", "e", "s">>, <<"o", "n">>}

\* classify_tasks.py line 15
INCLUDE_HUB_PARENTS(env) ==
    lower(GetEnv(env, <<"f", "a", "l", "s", "e">>)) = <<"t", "r", "u", "e">>

\* Values of the environment's INCLUDE_HUB_PARENTS: not set, "false", "true",
\* "1" and " True"
EnvValues ==
    {NoEnv,
     [some |-> TRUE, chars |-> <<"f", "a", "l", "s", "e">>],
     [some |-> TRUE, chars |-> <<"t", "r", "u", "e">>],
     [some |-> TRUE, chars |-> <<"1">>],
     [some |-> TRUE, chars |-> <<" ", "T", "r", "u", "e">>]}

\* Task names of the file's tasks
HubTitle ==
    <<"A", "c", "m", "e", " ", "|", " ", "N", "e", "w", "s", " ", "r", "u",
      "n", "s", " ", "5", " ", "|", " ", "R", "A", "L">>

DraftTitle ==
    <<"D", "r", "a", "f", "t", ":", " ", "A", "c", "m", "e", " ", "|", " ",
      "N", "e", "w", "s", " ", "r", "u", "n", "s", " ", "5">>

PostedTitle ==
    <<"A", "c", "m", "e", " ", "|", " ", "N", "e", "w", "s", " ", "p", "o",
      "s", "t", "e", "d">>

PlainTitle == <<"C", "a", "l", "l", " ", "A", "c", "m", "e">>

FileTitles == {HubTitle, DraftTitle, PostedTitle, PlainTitle}

\* A task as the fetch returns it: gid, name and is_subtask of OPT_FIELDS
FileTask(g, title, st) ==
    [null |-> FALSE, gid |-> Val(g), name |-> title, is_subtask |-> st,
     friendly |-> Absent]

\* What the is_subtask=False query and the is_subtask=True query return
ParentTasks == {FileTask(g, c, "false") : g \in 1..MaxGid, c \in FileTitles}

SubTasks == {FileTask(g, c, "true") : g \in 1..MaxGid, c \in {HubTitle, PlainTitle}}

\* is_hub_container_task and is_hub_parent, tabulated over the file's tasks
ContainerTable ==
    [st \in {"true", "false"}, c \in FileTitles |->
        is_hub_container_task([is_subtask |-> st,
                               name |-> [some |-> TRUE, chars |-> c]])]

HubParentTable ==
    [c \in FileTitles |-> is_hub_parent([some |-> TRUE, chars |-> c])]

\* analyze_workload.py lines 90-109
analyze_jsonl_to_json_file(lines, env) ==
    LET Kept(t) == ~(~include_hub(env) /\ ContainerTable[t.is_subtask, t.name])
    IN  SelectSeq(lines, Kept)

\* classify_tasks.py lines 50-68
classify_jsonl_to_json_file(lines, env) ==
    LET Kept(t) == ~(~INCLUDE_HUB_PARENTS(env) /\ HubParentTable[t.name])
    IN  SelectSeq(lines, Kept)

InitPrepare ==
    /\ FetchIdle
    /\ ClassifyIdle
    /\ PollIdle
    /\ ppc = "merge"
    /\ dayIx = 1
    /\ ownerIx = 1
    /\ \E ps \in SeqsUpTo(ParentTasks, MaxFile) :
          \E ss \in SeqsUpTo(SubTasks, MaxFile - Len(ps)) :
             /\ parents = ps
             /\ subs = ss
    /\ by_gid = <<>>
    /\ results = <<>>
    /\ issued = {}
    /\ hpc = "start"
    /\ task = NoTask
    /\ verdict = FALSE
    /\ jsonl = <<>>
    /\ script = "none"
    /\ include_env = NoEnv
    /\ objs = <<>>

\* asana_pull.py lines 233-253: save_jsonl writes the pulled tasks, one per
\* line, in order.
SaveJsonl ==
    /\ ppc = "merged"
    /\ hpc = "start"
    /\ jsonl' = results
    /\ hpc' = "saved"
    /\ UNCHANGED <<task, verdict, script, include_env, objs>>
    /\ UNCHANGED fetchVars
    /\ UNCHANGED pullVars
    /\ UNCHANGED classifyVars
    /\ UNCHANGED pollVars

\* analyze_workload.py: jsonl_to_json_file on the saved file
PrepareAnalyze ==
    /\ hpc = "saved"
    /\ \E env \in EnvValues :
          /\ include_env' = env
          /\ objs' = analyze_jsonl_to_json_file(jsonl, env)
    /\ script' = "analyze"
    /\ hpc' = "prepared"
    /\ UNCHANGED <<task, verdict, jsonl>>
    /\ UNCHANGED fetchVars
    /\ UNCHANGED pullVars
    /\ UNCHANGED classifyVars
    /\ UNCHANGED pollVars

\* classify_tasks.py: jsonl_to_json_file on the saved file
PrepareClassify ==
    /\ hpc = "saved"
    /\ \E env \in EnvValues :
          /\ include_env' = env
          /\ objs' = classify_jsonl_to_json_file(jsonl, env)
    /\ script' = "classify"
    /\ hpc' = "prepared"
    /\ UNCHANGED <<task, verdict, jsonl>>
    /\ UNCHANGED fetchVars
    /\ UNCHANGED pullVars
    /\ UNCHANGED classifyVars
    /\ UNCHANGED pollVars

NextPrepare == MergeStep \/ SaveJsonl \/ PrepareAnalyze \/ PrepareClassify

SpecPrepare == InitPrepare /\ [][NextPrepare]_vars

-----------------------------------------------------------------------------
(* Properties *)

\* C1 (SpecFetch). Pagination completeness: when the source serves its items
\* as a chain of pages, every page but the last carrying a continuation (a
\* non-empty URI or a non-zero offset), a fetch that returns gives each item
\* exactly once, in the order the pages delivered them, whatever the page
\* size, the number of pages and the retries in between.
PaginationComplete ==
    (fpc = "returned" /\ chainOK) =>
        /\ fresult.some
        /\ fresult.v = AllItems(srcN)
        /\ page = NumPages(srcN, srcPs)

PaginationWitness ==
    /\ fpc = "returned"
    /\ chainOK
    /\ page >= 2
    /\ srcPs >= 2
    /\ Len(fresult.v) = srcN
    /\ srcN >= 3
    /\ url.kind = "offset"

AllRateLimited(h) == \A i \in 1..Len(h) : h[i].status = 429

\* C2 (SpecFetch). Retry bound: one page request takes at most max_attempts
\* requests whatever the source answers; when every answer was a rate-limit
\* (429) the request ends only after exactly max_attempts requests, and the
\* fetch then raises instead of returning items.
RetryBound ==
    /\ attempt <= max_attempts
    /\ Len(hist) <= max_attempts
    /\ (fpc \in {"returned", "raised"} /\ AllRateLimited(hist)) =>
          /\ attempt = 5
          /\ Len(hist) = 5
          /\ fpc = "raised"
          /\ ~fresult.some

RetryBoundWitness ==
    /\ fpc = "raised"
    /\ AllRateLimited(hist)
    /\ attempt = max_attempts
    /\ page >= 1

PermanentStatus(st) ==
    /\ ~(200 <= st /\ st <= 299)
    /\ st # 429
    /\ ~(500 <= st /\ st <= 599)

\* C3 (SpecFetch). Permanent errors are not retried: a response that is not a
\* success, not a 429 and not a 5xx ends the fetch with an error at once: it
\* is the last response, no wait follows it and no request is issued after
\* it (so a page that answers it first got exactly one request and no wait),
\* and nothing is returned.
PermanentNotRetried ==
    \A i \in 1..Len(hist) :
        PermanentStatus(hist[i].status) =>
            /\ i = Len(hist)
            /\ ~hist[i].wait.some
            /\ attempt = i
            /\ fpc = "raised"
            /\ ~fresult.some
            /\ \A j \in 1..(i - 1) : hist[j].wait.some

PermanentWitness ==
    /\ fpc = "raised"
    /\ Len(hist) = 1
    /\ hist[1].status = 404
    /\ attempt = 1
    /\ page >= 1

\* C4 (SpecClassify). The classification step never fails outright: whatever
\* the terminal run status and the response text, it ends without raising and
\* its (possibly partial or empty) result is written as the result artifact.
ClassifyNeverFails ==
    /\ cpc # "exited"
    /\ (runStatus \in TerminalStatuses =>
           \E i \in 1..Len(artifacts) : artifacts[i].file = "classified_tasks")

\* the result entries of the result artifact
ResultsWritten ==
    IF \E i \in 1..Len(artifacts) : artifacts[i].file = "classified_tasks"
    THEN classified.results
    ELSE <<>>

\* The response the classifier was asked for: one object whose result array
\* holds one entry per submitted task, in submission order.
ValidFor(text, b) == text.syntax = "object" /\ text.results = b

\* the classifier answered every submission as a stub does that is valid up
\* to s tasks and invalid above
StubWithThreshold(s) ==
    \A i \in 1..Len(calls) :
        IF calls[i] <= s THEN ValidFor(assistant_text, batch)
                         ELSE ~ValidFor(assistant_text, batch)

\* C5 (SpecClassify). Split until valid: with a classifier that answers
\* validly for batches of at most s tasks and invalidly for larger ones
\* (s >= MIN_BATCH >= 1), classifying n tasks gives exactly n results, in
\* input order.
SplitUntilValid ==
    (cpc = "done" /\ \E s \in 1..MaxBatch : StubWithThreshold(s)) =>
        ResultsWritten = batch

\* C6 (SpecClassify). Shape validation: a response is accepted as a successful
\* classification only if it parses and its result array has one entry per
\* submitted task, in submission order.
ShapeValidated ==
    (cpc = "done" /\ classified.kind # "error") =>
        /\ Len(classified.results) = Len(batch)
        /\ classified.results = batch

-----------------------------------------------------------------------------
(* The container rule as stated, on words *)

LowerSeq(s) == [i \in 1..Len(s) |-> LowerChar(s[i])]

\* a word of s starts / ends at position i
WordStarts(s, i) ==
    /\ i >= 1 /\ i <= Len(s) /\ IsWordChar(s[i])
    /\ (i = 1 \/ ~IsWordChar(s[i - 1]))

WordEnds(s, i) ==
    /\ i >= 1 /\ i <= Len(s) /\ IsWordChar(s[i])
    /\ (i = Len(s) \/ ~IsWordChar(s[i + 1]))

\* s contains the word or phrase w (lower case) as whole words
ContainsPhrase(s, w) ==
    \E i \in 1..Len(s) :
        /\ i + Len(w) - 1 <= Len(s)
        /\ LowerSeq(SubSeq(s, i, i + Len(w) - 1)) = w
        /\ WordStarts(s, i)
        /\ WordEnds(s, i + Len(w) - 1)

ContainerAsStated(t) ==
    LET title == NameOrEmpty(t)
    IN  /\ t.is_subtask # "true"
        /\ \E i \in 1..Len(title) : title[i] # " "
        /\ ~\E w \in ACTION_RE : ContainsPhrase(title, w)
        /\ \E i \in 1..Len(title) : title[i] = "|"
        /\ \E w \in HUB_RE : ContainsPhrase(title, w)

EditionCode == <<"|", " ", "R", "A", "L">>

\* C7 (SpecFilter). Container rule: is_hub_container_task is true exactly
\* when the task is no subtask, its trimmed name is not empty, the name holds
\* no action word or phrase (any case) and holds a bar and a marker word
\* (runs, posted); and a name that has a bar gets the same answer with and
\* without a trailing edition code.
ContainerRule ==
    hpc = "checked" =>
        /\ verdict = ContainerAsStated(task)
        /\ (task.name.some /\ HasBar(task.name.chars)) =>
              is_hub_container_task(
                  [task EXCEPT !.name.chars = task.name.chars \o EditionCode])
              = verdict

ContainerWitness ==
    /\ hpc = "checked"
    /\ verdict = TRUE
    /\ ~EDITION_RE_search(Strip(task.name.chars))
    /\ \E i \in 1..Len(task.name.chars) : task.name.chars[i] = "P"

-----------------------------------------------------------------------------

MergedInput == parents \o subs

Occurrences(g) ==
    {i \in 1..Len(MergedInput) :
        ~MergedInput[i].null /\ MergedInput[i].gid = Val(g)}

Entries(g) == {j \in 1..Len(by_gid) : by_gid[j].gid = Val(g)}

LastOf(S) == CHOOSE i \in S : \A j \in S : j <= i

\* C8 (SpecMerge). Merge is last-write-wins by id: merging the parent-query
\* and the subunit-query result of one (day, owner), the merged map has
\* exactly one entry per id occurring in either sequence, that entry is the
\* item of the id's last occurrence (a subunit-query item replaces the
\* parent-query item of the same id), and the merge never raises.
MergeLastWriteWins ==
    /\ ppc = "merge" => ENABLED MergeStep
    /\ ppc = "merged" =>
          /\ \A g \in 1..MaxGid :
                IF Occurrences(g) = {}
                THEN Entries(g) = {}
                ELSE /\ Cardinality(Entries(g)) = 1
                     /\ \A j \in Entries(g) :
                           [by_gid[j] EXCEPT !.friendly = Absent]
                           = MergedInput[LastOf(Occurrences(g))]
          /\ Len(by_gid) = Cardinality({g \in 1..MaxGid : Occurrences(g) # {}})

MergeWitness ==
    /\ ppc = "merged"
    /\ Len(parents) >= 1
    /\ Len(subs) >= 1
    /\ \E i \in 1..Len(parents) : \E k \in 1..Len(subs) :
          /\ HasGid(parents[i])
          /\ ~subs[k].null
          /\ subs[k].gid = parents[i].gid
          /\ subs[k].name # parents[i].name
          /\ \E j \in 1..Len(by_gid) : by_gid[j].name = subs[k].name
    /\ Len(by_gid) = 2

\* C9 (SpecPull). De-duplication across all fetch dimensions: after a full
\* pull the result holds at most one item per id, whatever the source returns
\* to each (day, owner, subunit-flag) query.
PullDeduplicated ==
    ppc = "done" =>
        \A i \in 1..Len(results) : \A j \in 1..Len(results) :
            (i # j) => (results[i].gid # results[j].gid)

\* C10 (SpecPull). Fetch failure isolation: when the query of one dimension
\* fails, the queries of all other dimensions are still issued.
FetchFailureIsolated ==
    ppc = "raised" => issued = Queries

-----------------------------------------------------------------------------
(* Waiting for the classifier run *)

DeadlinePassed == checkedAt > timeout_s * 10

\* C11: waiting for a classifier run always ends: once a retrieval made after
\* the overall deadline (600 seconds by default) has found the run still not
\* terminal, polling stops, and the expiry is handled like a validation
\* failure of the batch: the program neither goes on polling nor exits
\* without a result.
ClassifierDeadline ==
    (polls > 0 /\ runStatus \in PendingStatuses /\ DeadlinePassed)
        => /\ cpc = "done"
           /\ \E i \in 1..Len(artifacts) :
                 artifacts[i].file = "classified_tasks"

-----------------------------------------------------------------------------
(* Merge, applied again *)

\* C12 (SpecMerge). Merge idempotence: merging the subunit-query result into
\* the merged map once more gives the same map, merge(merge(A, B), B) =
\* merge(A, B), both for the bare merge of lines 182-185 and for the whole
\* merge step with its annotation, for all item sequences A and B.
MergeIdempotent ==
    /\ MergeByGid(MergeByGid(parents, subs), subs) = MergeByGid(parents, subs)
    /\ ppc = "merged" =>
          Annotate(MergeByGid(by_gid, subs), ownerIx) = by_gid

MergeIdempotentWitness ==
    /\ ppc = "merged"
    /\ Len(subs) = 2
    /\ HasGid(subs[1])
    /\ HasGid(subs[2])
    /\ subs[1].gid # subs[2].gid
    /\ \E i \in 1..Len(parents) :
          HasGid(parents[i]) /\ parents[i].gid = subs[2].gid
                             /\ parents[i].name # subs[2].name
    /\ Len(by_gid) = 2

-----------------------------------------------------------------------------
(* The upload file *)

IsContainerItem(t) == ContainerTable[t.is_subtask, t.name]

NotContainerItem(t) == ~IsContainerItem(t)

EnvTrue == [some |-> TRUE, chars |-> <<"t", "r", "u", "e">>]

\* C13 (SpecPrepare). Filter toggle: whichever script prepares the working
\* set, with INCLUDE_HUB_PARENTS not set the upload array is the file's tasks
\* with exactly the container tasks removed, the others in file order; with
\* INCLUDE_HUB_PARENTS=true it is the file's tasks unchanged.
FilterToggle ==
    hpc = "prepared" =>
        /\ (include_env = NoEnv => objs = SelectSeq(jsonl, NotContainerItem))
        /\ (include_env = EnvTrue => objs = jsonl)

\* the items the two queries of the pair returned
Fetched == {parents[i] : i \in 1..Len(parents)} \cup {subs[i] : i \in 1..Len(subs)}

RECURSIVE IsSubsequence(_, _)
\* a is b with some elements left out
IsSubsequence(a, b) ==
    IF a = <<>> THEN TRUE
    ELSE IF b = <<>> THEN FALSE
    ELSE IF Head(a) = Head(b) THEN IsSubsequence(Tail(a), Tail(b))
    ELSE IsSubsequence(a, Tail(b))

\* C14 as stated: an item is not changed between fetch and classification:
\* every item of the merged map and of the upload array is, field for field,
\* an item the fetch returned.
ItemsUnmodified ==
    /\ ppc = "merged" =>
          \A j \in 1..Len(by_gid) : by_gid[j] \in Fetched
    /\ hpc = "prepared" =>
          \A i \in 1..Len(objs) : objs[i] \in Fetched

\* C14 (SpecPrepare), amended. Between fetch and classification an item is
\* changed in one way only: the merge step adds the field _assignee_friendly,
\* set to the friendly name of the assignee of the pair, and adds, changes or
\* removes no field the fetch returned; save_jsonl writes the merged items as
\* they are, and the filter of either script only removes whole items,
\* keeping the others as they are and in order.
ItemsOnlyAnnotated ==
    /\ ppc = "merged" =>
          \A j \in 1..Len(by_gid) :
             /\ by_gid[j].friendly = Val(ownerIx)
             /\ [by_gid[j] EXCEPT !.friendly = Absent] \in Fetched
    /\ hpc \in {"saved", "prepared"} => jsonl = by_gid
    /\ hpc = "prepared" => IsSubsequence(objs, jsonl)

ItemsOnlyAnnotatedWitness ==
    /\ hpc = "prepared"
    /\ Len(parents) + Len(subs) > Len(by_gid)
    /\ Len(jsonl) = 2
    /\ Len(objs) = 1
    /\ objs[1] = jsonl[2]
    /\ objs[1].friendly = Val(ownerIx)
    /\ objs[1] \notin Fetched

-----------------------------------------------------------------------------
(* The raw response record *)

\* C15 (SpecClassify). Audit trail: for every classifier run that has ended,
\* completed or not and with text that parses or not, the raw response is
\* recorded, and the record is written before the result artifact.
RawRecorded ==
    /\ runStatus \in TerminalStatuses =>
          \E i \in 1..Len(artifacts) : artifacts[i].file = "assistant_raw"
    /\ \A j \in 1..Len(artifacts) :
          artifacts[j].file = "classified_tasks" =>
             \E i \in 1..(j - 1) :
                /\ artifacts[i].file = "assistant_raw"
                /\ artifacts[i].text = assistant_text

-----------------------------------------------------------------------------
(* Waits between the requests of one page *)

IsRetried5xx(e) == IsServerError(e.status) /\ e.wait.some

\* the waits that followed the 5xx responses of the running page request
ServerErrorWaits ==
    LET es == SelectSeq(hist, IsRetried5xx)
    IN  [i \in 1..Len(es) |-> es[i].wait.v]

\* C16 (SpecFetch). Server-error backoff: the waits after the retried 5xx
\* responses of one page request are 1, 2, 4, 8 in this order (so they never
\* decrease), no wait and no stored backoff exceeds the cap of 10, and 5xx
\* and rate-limit retries share the budget of max_attempts requests: a page
\* request answered by 5xx only is given up exactly at request max_attempts.
BackoffSchedule ==
    /\ Len(ServerErrorWaits) <= 4
    /\ ServerErrorWaits = SubSeq(<<1, 2, 4, 8>>, 1, Len(ServerErrorWaits))
    /\ \A i \in 1..Len(ServerErrorWaits) : ServerErrorWaits[i] <= BackoffCap
    /\ backoff <= BackoffCap
    /\ Len(hist) = attempt
    /\ attempt <= max_attempts
    /\ (\A i \in 1..Len(hist) : IsServerError(hist[i].status)) =>
          /\ Len(ServerErrorWaits) = Min(attempt, max_attempts - 1)
          /\ attempt = max_attempts <=> fpc = "raised"

BackoffScheduleWitness ==
    /\ fpc = "raised"
    /\ attempt = max_attempts
    /\ \A i \in 1..Len(hist) : IsServerError(hist[i].status)
    /\ ServerErrorWaits = <<1, 2, 4, 8>>
    /\ backoff = BackoffCap

IsRetried429(e) == IsRateLimited(e.status) /\ e.wait.some

\* every request of the running fetch_with_retry call asked for the same URL,
\* the one a further request would ask for
SameUrlRepeated ==
    /\ \A i \in 1..Len(hist) : \A j \in 1..Len(hist) : hist[i].url = hist[j].url
    /\ (fpc = "fetching" /\ hist # <<>>) => hist[Len(hist)].url = url

\* C17 as stated: after a retried 429 the wait is the advertised Retry-After,
\* whatever its value, and 2 when the header is missing; the same URL is
\* requested again.
WaitAsAdvertised ==
    /\ \A i \in 1..Len(hist) :
          IsRetried429(hist[i]) =>
             hist[i].wait.v = (IF hist[i].ra.some THEN hist[i].ra.v ELSE 2)
    /\ SameUrlRepeated

\* C17 (SpecFetch), amended. After a retried 429 the wait is the advertised
\* Retry-After when that is at least 1, is 1 when the advertised value is
\* less than 1, and is the default 2 when the header is missing; the same URL
\* is then requested again.
WaitAtLeastOne ==
    /\ \A i \in 1..Len(hist) :
          IsRetried429(hist[i]) =>
             /\ (hist[i].ra.some /\ hist[i].ra.v >= 1) =>
                   hist[i].wait.v = hist[i].ra.v
             /\ (hist[i].ra.some /\ hist[i].ra.v < 1) => hist[i].wait.v = 1
             /\ ~hist[i].ra.some => hist[i].wait.v = 2
    /\ SameUrlRepeated

WaitAtLeastOneWitness ==
    /\ Len(hist) = 4
    /\ page = 1
    /\ IsRetried429(hist[1]) /\ hist[1].ra = Val(0) /\ hist[1].wait = Val(1)
    /\ IsRetried429(hist[2]) /\ hist[2].ra = Val(MaxRetryAfter)
                             /\ hist[2].wait = Val(MaxRetryAfter)
    /\ IsRetried429(hist[3]) /\ hist[3].ra = Absent /\ hist[3].wait = Val(2)
    /\ hist[4].url = hist[3].url
    /\ hist[4].url # FirstUrl

-----------------------------------------------------------------------------
(* Following the continuation *)

\* the request the loop goes on with after a page with next_page np
TokenUrl(np) ==
    IF Truthy(np.uri) THEN [kind |-> "uri", v |-> np.uri.v]
                      ELSE [kind |-> "offset", v |-> np.offset.v]

\* a token as C18 words it: a cursor URI, or an offset of any value
SuppliesToken(np) == ~np.null /\ (Truthy(np.uri) \/ np.offset.some)

\* C18 as stated: after a successful page a next page is requested exactly
\* when the response supplies a cursor URI or an offset, whatever the
\* offset's value, and the next request uses that token.
ContinuationFollowed ==
    page >= 1 =>
        /\ fpc = "returned" <=> ~SuppliesToken(lastNext)
        /\ fpc # "returned" => url = TokenUrl(lastNext)

\* C18 (SpecFetch), amended. After each successful page a next page is
\* requested exactly when the response supplies a usable token, a non-empty
\* cursor URI or an offset other than 0; the next request uses exactly that
\* token, the URI when both are given; every request made addresses the page
\* after the pages that succeeded so far; and the loop returns at the first
\* successful page whose response has no usable token.
ContinuationUsable ==
    /\ page >= 1 =>
          /\ fpc = "returned" <=> ~HasContinuation(lastNext)
          /\ fpc # "returned" => url = TokenUrl(lastNext)
    /\ page = 0 => url = FirstUrl /\ fpc # "returned"
    /\ \A i \in 1..Len(hist) :
          PageOf(hist[i].url, srcPs) = (IF fpc = "returned" THEN page ELSE page + 1)
    /\ fpc = "returned" => fresult = Val(out)

ContinuationWitness ==
    /\ fpc = "returned"
    /\ page = 2
    /\ url.kind = "uri"
    /\ ~lastNext.null
    /\ lastNext.offset = Val(0)
    /\ lastNext.uri = Val(0)
    /\ Len(out) < srcN

-----------------------------------------------------------------------------
(* The pruning of classify_tasks.py against the container rule *)

Dropped(t) == \A i \in 1..Len(objs) : objs[i] # t

\* C19 (SpecPrepare). Pruning refinement: with INCLUDE_HUB_PARENTS not set,
\* jsonl_to_json_file of classify_tasks.py drops a task exactly when
\* is_hub_container_task calls it a container: it never drops a subtask and
\* never drops a task whose name holds an action word, such as one starting
\* with "Draft:", even when the name has a bar and a marker word.
PruningFollowsRule ==
    (hpc = "prepared" /\ script = "classify" /\ include_env = NoEnv) =>
        \A i \in 1..Len(jsonl) :
            /\ Dropped(jsonl[i]) <=> IsContainerItem(jsonl[i])
            /\ jsonl[i].is_subtask = "true" => ~Dropped(jsonl[i])
            /\ jsonl[i].name = DraftTitle => ~Dropped(jsonl[i])

-----------------------------------------------------------------------------
(* A response without parseable data *)

\* json.loads finds nothing to parse in the text
NothingParseable == assistant_text.syntax \in {"empty", "prose", "fenced"}

\* C20 (SpecClassify). Salvage floor: when the run completed and its text
\* has no structured data json.loads can parse, no entry is padded or made
\* up (the result holds no entries; what is written is the error object), no
\* error is raised, no further batch is submitted, and the run ends with its
\* result artifact written.
SalvageFloor ==
    (runStatus = "completed" /\ NothingParseable) =>
        /\ cpc = "done"
        /\ classified.kind = "error"
        /\ classified.results = <<>>
        /\ Len(calls) = 1
        /\ Len(artifacts) = 2
        /\ artifacts[2].file = "classified_tasks"
        /\ artifacts[2].json = classified

SalvageFloorWitness ==
    /\ runStatus = "completed"
    /\ assistant_text.syntax = "prose"
    /\ Len(batch) >= 2
    /\ polls >= 1
    /\ cpc = "done"
    /\ artifacts[2].json.results = <<>>

-----------------------------------------------------------------------------
(* The retry budget of a page *)

\* C21 (SpecFetch). The retry budget and the backoff are per page request:
\* the requests counted against max_attempts and the backoff are those of the
\* running page request only (a page request starts with no request counted
\* and a backoff of 1), a retry is available exactly while the running page
\* request has issued fewer than max_attempts - 1 requests, whatever earlier
\* pages spent, and so a query of P pages may issue P * max_attempts
\* requests.
PerPageBudget ==
    /\ attempt = Len(hist)
    /\ attempt <= max_attempts
    /\ \A i \in 1..Len(hist) : hist[i].url = url
    /\ backoff = <<1, 2, 4, 8, 10>>[Len(ServerErrorWaits) + 1]
    /\ fpc = "fetching" =>
          (ENABLED RetryRateLimited <=> attempt + 1 < max_attempts)
    /\ fpc = "fetching" =>
          (ENABLED RetryServerError <=> attempt + 1 < max_attempts)
    /\ fullPages <= paced

PerPageBudgetWitness ==
    /\ fpc = "returned"
    /\ page = 3
    /\ fullPages = 2
    /\ attempt = max_attempts
    /\ Len(ServerErrorWaits) = 4
    /\ Len(fresult.v) = 3

-----------------------------------------------------------------------------
(* What a fetch gives its caller *)

RECURSIVE PagesData(_)
\* the items of pages 1..k of the source, in order
PagesData(k) ==
    IF k = 0 THEN <<>> ELSE PagesData(k - 1) \o PageData(k, srcN, srcPs)

\* C22 (SpecFetch). No partial fetch result: fetch_tasks_for_day gives its
\* caller a result only when it returns, and then the items of every page
\* up to the one whose response carried no usable continuation (all items
\* of the query when the source chained its pages); when a page request
\* fails after earlier pages succeeded it raises, the items accumulated so
\* far go to nobody, and no further request is made.
NoPartialResult ==
    /\ fresult.some <=> fpc = "returned"
    /\ fpc = "returned" =>
          /\ fresult.v = PagesData(page)
          /\ ~HasContinuation(lastNext)
          /\ chainOK => fresult.v = AllItems(srcN)
    /\ fpc = "raised" =>
          /\ ~IsSuccess(hist[Len(hist)].status)
          /\ out = PagesData(page)
          /\ ~ENABLED NextFetch
    /\ fpc = "fetching" => out = PagesData(page)

NoPartialResultWitness ==
    /\ fpc = "raised"
    /\ page = 2
    /\ Len(out) = 2
    /\ srcN = 3
    /\ ~fresult.some
    /\ chainOK

-----------------------------------------------------------------------------
(* poll_until_complete *)

PollSafe ==
    /\ qpc = "returned" => run \in TerminalStatuses
    /\ qpc = "raised" => /\ run \in PendingStatuses
                         /\ clock > timeout * 10
    /\ qpc \in {"returned", "raised"} => retrieved >= 1
    /\ (qpc = "polling" /\ retrieved >= 1) =>
          /\ run \in PendingStatuses
          /\ clock - PollSleep <= timeout * 10
    /\ qpc = "polling" => ENABLED PollReturn

\* C23 (SpecPollLive). poll_until_complete returns only a run whose status
\* is completed, failed, cancelled or expired, and raises TimeoutError only
\* for a run found not terminal more than timeout_s after the start; either
\* way at least one retrieval was made; the status is looked at before the
\* deadline, so while the call polls a terminal run is returned whatever the
\* time; and the call always ends.
PollSemantics == [](PollSafe) /\ <>(qpc # "polling")

PollSemanticsWitness ==
    /\ qpc = "returned"
    /\ timeout = MaxTimeout
    /\ retrieved >= 3
    /\ clock > timeout * 10
    /\ run = "failed"

-----------------------------------------------------------------------------
(* Items without an id *)

\* a dict with a non-empty id
Identified(t) == ~t.null /\ t.gid.some /\ t.gid.v # 0

\* C24 (SpecMerge). The merge step drops exactly the items without an id:
\* the merged output of a (day, owner) pair holds no null item and no item
\* whose id is missing or empty, it holds an item for every non-empty id
\* either query returned, it is what the pair adds to the pull's results,
\* and the merge step never raises on null items or items without an id.
DropsUnidentified ==
    /\ ppc = "merge" => ENABLED MergeStep
    /\ ppc = "merged" =>
          /\ \A j \in 1..Len(by_gid) : Identified(by_gid[j])
          /\ \A i \in 1..Len(MergedInput) :
                Identified(MergedInput[i]) =>
                   \E j \in 1..Len(by_gid) : by_gid[j].gid = MergedInput[i].gid
          /\ \A j \in 1..Len(by_gid) :
                \E i \in 1..Len(MergedInput) :
                   MergedInput[i] = [by_gid[j] EXCEPT !.friendly = Absent]
          /\ results = by_gid

DropsUnidentifiedWitness ==
    /\ ppc = "merged"
    /\ Len(MergedInput) = 3
    /\ \E i \in 1..3 : MergedInput[i].null
    /\ \E i \in 1..3 : ~MergedInput[i].null /\ MergedInput[i].gid = Val(0)
    /\ \E i \in 1..3 : Identified(MergedInput[i])
    /\ Len(by_gid) = 1
    /\ Len(parents) = 1

=============================================================================
